---- MODULE Spec2Model ----
(***************************************************************************)
(* Model of the LLM inference calculator (src/src/calculations.ts, the     *)
(* types of src/unnamed/part_000 and the components of src/src/App.tsx).   *)
(*                                                                         *)
(* Numbers.  The program computes with JavaScript numbers.  The model      *)
(* computes with exact rationals <<n, d>> (d > 0, lowest terms), so every   *)
(* constant of the code (0.35, 1.1, 0.2, ...) has its decimal value and    *)
(* the operations are carried out in the order the code carries them out.  *)
(* The properties checked on rationals compare what the code computes with *)
(* the same expression in the same order.  Where a property equates two    *)
(* different expressions (calculateOnDiskSize against a single product),   *)
(* the rounding of IEEE-754 doubles decides, and the function is modelled  *)
(* a second time in binary64 (calculateOnDiskSize64).                      *)
(***************************************************************************)
EXTENDS Integers, Sequences, FiniteSets, TLC

(***************************************************************************)
(* Exact rational arithmetic.                                              *)
(***************************************************************************)
Abs(x) == IF x < 0 THEN -x ELSE x

RECURSIVE GCD(_, _)
GCD(a, b) == IF b = 0 THEN a ELSE GCD(b, a % b)

\* The rational n/d (d # 0) in lowest terms with a positive denominator.
Rat(n, d) ==
    LET g == GCD(Abs(n), Abs(d))
        s == IF d < 0 THEN -1 ELSE 1
    IN  <<(s * n) \div g, (s * d) \div g>>

R(n) == <<n, 1>>

RAdd(a, b) ==
    LET g == GCD(a[2], b[2])
    IN  Rat(a[1] * (b[2] \div g) + b[1] * (a[2] \div g), (a[2] \div g) * b[2])

\* Cross-reduced product: the operands are in lowest terms, so is the result.
RMul(a, b) ==
    LET g1 == GCD(Abs(a[1]), b[2])
        g2 == GCD(Abs(b[1]), a[2])
    IN  IF a[1] = 0 \/ b[1] = 0 THEN <<0, 1>>
        ELSE <<(a[1] \div g1) * (b[1] \div g2), (a[2] \div g2) * (b[2] \div g1)>>

\* a / b for b # 0.
RDiv(a, b) == RMul(a, Rat(b[2], b[1]))

\* n1/d1 <= n2/d2 for d1, d2 > 0, by integer parts and then the reciprocals
\* of the fractional parts (no cross product, so no overflow).
RECURSIVE FracLeq(_, _, _, _)
FracLeq(n1, d1, n2, d2) ==
    LET q1 == n1 \div d1
        q2 == n2 \div d2
        r1 == n1 % d1
        r2 == n2 % d2
    IN  IF q1 # q2 THEN q1 < q2
        ELSE IF r1 = 0 THEN TRUE
        ELSE IF r2 = 0 THEN FALSE
        ELSE FracLeq(d2, r2, d1, r1)

RLeq(a, b) == FracLeq(a[1], a[2], b[1], b[2])

RLt(a, b) == ~RLeq(b, a)

\* Math.max
RMax(a, b) == IF RLeq(a, b) THEN b ELSE a

\* Math.ceil: the least integer >= a (\div rounds down).
RCeil(a) == -((-a[1]) \div a[2])

(***************************************************************************)
(* Number.prototype.toFixed(2): the decimal string with two fraction       *)
(* digits of the number n / 100 nearest to x (the larger n on a tie).      *)
(***************************************************************************)
Digit2(k) == IF k < 10 THEN "0" \o ToString(k) ELSE ToString(k)

\* The integer n for which n / 100 is nearest to |x| (the larger n on a tie),
\* by long division: the integer part, two decimal digits, and the rest
\* against one half.
roundHundredths(x) ==
    LET a  == Abs(x[1])
        q  == a \div x[2]
        d1 == (10 * (a % x[2])) \div x[2]
        r1 == (10 * (a % x[2])) % x[2]
        d2 == (10 * r1) \div x[2]
        r2 == (10 * r1) % x[2]
    IN  100 * q + 10 * d1 + d2 + (IF 2 * r2 >= x[2] THEN 1 ELSE 0)

\* The digits of n / 100; a negative x keeps its sign ("-0.00" included).
formatHundredths(n, negative) ==
    LET s == ToString(n \div 100) \o "." \o Digit2(n % 100)
    IN  IF negative THEN "-" \o s ELSE s

toFixed2(x) == formatHundredths(roundHundredths(x), x[1] < 0)

(***************************************************************************)
(* src/unnamed/part_000: the tag types.  A tag that is none of the type's  *)
(* values can still arrive at run time (the types are erased).             *)
(***************************************************************************)
ModelQuantization == {"F32", "F16", "Q8", "Q6", "Q5", "Q4", "Q3", "Q2", "GPTQ", "AWQ"}

KvCacheQuantization == {"F32", "F16", "Q8", "Q5", "Q4"}

MemoryMode == {"DISCRETE_GPU", "UNIFIED_MEMORY"}

\* calculations.ts:3.  "undefined" is the value of an argument not passed.
InferenceMode == {"incremental", "bulk"}

(***************************************************************************)
(* src/src/calculations.ts                                                 *)
(***************************************************************************)
getModelQuantFactor_NoQ6(q) ==
    CASE q = "F32"  -> R(4)
      [] q = "F16"  -> R(2)
      [] q = "Q8"   -> R(1)
      [] q = "Q5"   -> Rat(625, 1000)
      [] q = "Q4"   -> Rat(5, 10)
      [] q = "Q3"   -> Rat(375, 1000)
      [] q = "Q2"   -> Rat(25, 100)
      [] q = "GPTQ" -> Rat(4, 10)
      [] q = "AWQ"  -> Rat(35, 100)
      [] OTHER      -> R(1)

getModelQuantFactor(q) ==
    CASE q = "F32"  -> R(4)
      [] q = "F16"  -> R(2)
      [] q = "Q8"   -> R(1)
      [] q = "Q6"   -> Rat(75, 100)
      [] q = "Q5"   -> Rat(625, 1000)
      [] q = "Q4"   -> Rat(5, 10)
      [] q = "Q3"   -> Rat(375, 1000)
      [] q = "Q2"   -> Rat(25, 100)
      [] q = "GPTQ" -> Rat(4, 10)
      [] q = "AWQ"  -> Rat(35, 100)
      [] OTHER      -> R(1)

getKvCacheQuantFactor(k) ==
    CASE k = "F32" -> R(4)
      [] k = "F16" -> R(2)
      [] k = "Q8"  -> R(1)
      [] k = "Q5"  -> Rat(625, 1000)
      [] k = "Q4"  -> Rat(5, 10)
      [] OTHER     -> R(1)

alphaAt2048 == Rat(2, 10)

bulkAlphaAt2048 == Rat(5, 10)

overheadFactor == Rat(11, 10)

\* Mutant: the KV cache is charged in incremental mode whether or not it is on.
contextMem_KvAlways(baseModelMem, contextLength, useKvCache, kvCacheQuant, inferenceMode) ==
    IF inferenceMode = "incremental"
    THEN RMul(RMul(RMul(baseModelMem, alphaAt2048), Rat(contextLength, 2048)),
              getKvCacheQuantFactor(kvCacheQuant))
    ELSE LET bulkScale == Rat(contextLength, 2048)
             act == RMul(RMul(baseModelMem, bulkAlphaAt2048), bulkScale)
         IN  IF useKvCache
             THEN RAdd(act, RMul(RMul(RMul(baseModelMem, Rat(1, 10)),
                                      getKvCacheQuantFactor(kvCacheQuant)), bulkScale))
             ELSE act

\* Mutant: the bulk branch forgets the KV-cache addition.
contextMem_BulkNoKv(baseModelMem, contextLength, useKvCache, kvCacheQuant, inferenceMode) ==
    IF inferenceMode = "incremental"
    THEN IF useKvCache
         THEN RMul(RMul(RMul(baseModelMem, alphaAt2048), Rat(contextLength, 2048)),
                   getKvCacheQuantFactor(kvCacheQuant))
         ELSE R(0)
    ELSE RMul(RMul(baseModelMem, bulkAlphaAt2048), Rat(contextLength, 2048))

\* Mutant: the bulk branch forgets the activation term and keeps the KV cache.
contextMem_BulkOnlyKv(baseModelMem, contextLength, useKvCache, kvCacheQuant, inferenceMode) ==
    IF inferenceMode = "incremental"
    THEN IF useKvCache
         THEN RMul(RMul(RMul(baseModelMem, alphaAt2048), Rat(contextLength, 2048)),
                   getKvCacheQuantFactor(kvCacheQuant))
         ELSE R(0)
    ELSE IF useKvCache
         THEN RMul(RMul(RMul(baseModelMem, Rat(1, 10)),
                        getKvCacheQuantFactor(kvCacheQuant)), Rat(contextLength, 2048))
         ELSE R(0)

\* Mutant: the scale is inverted (2048 / contextLength).
contextMem_InverseScale(baseModelMem, contextLength, useKvCache, kvCacheQuant, inferenceMode) ==
    IF inferenceMode = "incremental"
    THEN IF useKvCache
         THEN RMul(RMul(RMul(baseModelMem, alphaAt2048), Rat(2048, contextLength)),
                   getKvCacheQuantFactor(kvCacheQuant))
         ELSE R(0)
    ELSE LET bulkScale == Rat(2048, contextLength)
             act == RMul(RMul(baseModelMem, bulkAlphaAt2048), bulkScale)
         IN  IF useKvCache
             THEN RAdd(act, RMul(RMul(RMul(baseModelMem, Rat(1, 10)),
                                      getKvCacheQuantFactor(kvCacheQuant)), bulkScale))
             ELSE act

\* calculateRequiredVram, step 2: the value of contextMem at line 96.
contextMem(baseModelMem, contextLength, useKvCache, kvCacheQuant, inferenceMode) ==
    IF inferenceMode = "incremental"
    THEN IF useKvCache
         THEN LET kvFactor == getKvCacheQuantFactor(kvCacheQuant)
                  kvScale  == Rat(contextLength, 2048)
              IN  RMul(RMul(RMul(baseModelMem, alphaAt2048), kvScale), kvFactor)
         ELSE R(0)
    ELSE LET bulkScale == Rat(contextLength, 2048)
             act       == RMul(RMul(baseModelMem, bulkAlphaAt2048), bulkScale)
         IN  IF useKvCache
             THEN LET kvFactor == getKvCacheQuantFactor(kvCacheQuant)
                  IN  RAdd(act, RMul(RMul(RMul(baseModelMem, Rat(1, 10)), kvFactor),
                                     bulkScale))
             ELSE act

calculateRequiredVram(params, modelQuant, contextLength, useKvCache, kvCacheQuant, inferenceMode) ==
    LET modelFactor  == getModelQuantFactor(modelQuant)
        baseModelMem == RMul(params, modelFactor)
        totalVram    == RAdd(baseModelMem,
                             contextMem(baseModelMem, contextLength, useKvCache,
                                        kvCacheQuant, inferenceMode))
    IN  RMul(totalVram, overheadFactor)

\* Mutant: the 8 GB floor is missing.
systemRamNeeded_NoFloor(params, modelQuant, contextLength, inferenceMode) ==
    RAdd(RMul(RMul(params, getModelQuantFactor(modelQuant)), Rat(5, 10)),
         IF inferenceMode = "bulk" THEN Rat(contextLength, 1024) ELSE R(0))

\* Lines 137-139.
systemRamNeeded(params, modelQuant, contextLength, inferenceMode) ==
    LET baseSystemRamNeeded ==
            RAdd(RMul(RMul(params, getModelQuantFactor(modelQuant)), Rat(5, 10)),
                 IF inferenceMode = "bulk" THEN Rat(contextLength, 1024) ELSE R(0))
    IN  RMax(R(8), baseSystemRamNeeded)

\* Mutant: only three quarters of the system memory count (the README's rule).
fitsUnified_ThreeQuarters(memoryMode, systemMemory, requiredVram) ==
    /\ memoryMode = "UNIFIED_MEMORY"
    /\ RLeq(requiredVram, RMul(Rat(75, 100), R(systemMemory)))

\* Mutant: the memory mode is not looked at.
fitsUnified_AnyMode(memoryMode, systemMemory, requiredVram) ==
    RLeq(requiredVram, R(systemMemory))

\* Line 142.
fitsUnified(memoryMode, systemMemory, requiredVram) ==
    memoryMode = "UNIFIED_MEMORY" /\ RLeq(requiredVram, R(systemMemory))

\* Mutant: the 1.2 buffer is missing.
gpuConfig_NoBuffer(memoryMode, requiredVram, systemMemory, gpuVram) ==
    IF memoryMode = "DISCRETE_GPU"
    THEN LET n == RCeil(RDiv(requiredVram, R(gpuVram)))
         IN  IF n = 1
             THEN [gpusRequired |-> 1,
                   gpuType |-> "Single " \o ToString(gpuVram) \o "GB GPU"]
             ELSE IF n <= 8
             THEN [gpusRequired |-> n,
                   gpuType |-> ToString(n) \o "x " \o ToString(gpuVram) \o "GB GPUs"]
             ELSE [gpusRequired |-> 0,
                   gpuType |-> "Exceeds 8x " \o ToString(gpuVram) \o "GB GPUs"]
    ELSE [gpusRequired |-> 0,
          gpuType |-> "Unified memory (" \o ToString(systemMemory) \o "GB)"]

\* Mutant: the count is not reset to 0 when more than 8 GPUs are needed.
gpuConfig_NoReset(memoryMode, requiredVram, systemMemory, gpuVram) ==
    IF memoryMode = "DISCRETE_GPU"
    THEN LET n == RCeil(RDiv(RMul(requiredVram, Rat(12, 10)), R(gpuVram)))
         IN  IF n = 1
             THEN [gpusRequired |-> 1,
                   gpuType |-> "Single " \o ToString(gpuVram) \o "GB GPU"]
             ELSE IF n <= 8
             THEN [gpusRequired |-> n,
                   gpuType |-> ToString(n) \o "x " \o ToString(gpuVram) \o "GB GPUs"]
             ELSE [gpusRequired |-> n,
                   gpuType |-> "Exceeds 8x " \o ToString(gpuVram) \o "GB GPUs"]
    ELSE [gpusRequired |-> 0,
          gpuType |-> "Unified memory (" \o ToString(systemMemory) \o "GB)"]

\* Mutant: the GPU count is computed before the branch on the memory mode.
gpuConfig_CountInUnified(memoryMode, requiredVram, systemMemory, gpuVram) ==
    LET n == RCeil(RDiv(RMul(requiredVram, Rat(12, 10)), R(gpuVram)))
    IN  IF memoryMode = "DISCRETE_GPU"
        THEN IF n = 1
             THEN [gpusRequired |-> 1,
                   gpuType |-> "Single " \o ToString(gpuVram) \o "GB GPU"]
             ELSE IF n <= 8
             THEN [gpusRequired |-> n,
                   gpuType |-> ToString(n) \o "x " \o ToString(gpuVram) \o "GB GPUs"]
             ELSE [gpusRequired |-> 0,
                   gpuType |-> "Exceeds 8x " \o ToString(gpuVram) \o "GB GPUs"]
        ELSE [gpusRequired |-> IF n <= 8 THEN n ELSE 0,
              gpuType |-> "Unified memory (" \o ToString(systemMemory) \o "GB)"]

\* Lines 145-164: the values of gpusRequired and gpuType at line 166.
gpuConfig(memoryMode, requiredVram, systemMemory, gpuVram) ==
    IF memoryMode = "DISCRETE_GPU"
    THEN LET n == RCeil(RDiv(RMul(requiredVram, Rat(12, 10)), R(gpuVram)))
         IN  IF n = 1
             THEN [gpusRequired |-> n,
                   gpuType |-> "Single " \o ToString(gpuVram) \o "GB GPU"]
             ELSE IF n <= 8
             THEN [gpusRequired |-> n,
                   gpuType |-> ToString(n) \o "x " \o ToString(gpuVram) \o "GB GPUs"]
             ELSE [gpusRequired |-> 0,
                   gpuType |-> "Exceeds 8x " \o ToString(gpuVram) \o "GB GPUs"]
    ELSE [gpusRequired |-> 0,
          gpuType |-> "Unified memory (" \o ToString(systemMemory) \o "GB)"]

calculateHardwareRecommendation(params, modelQuant, contextLength, useKvCache, kvCacheQuant, memoryMode, systemMemory, gpuVram, inferenceMode) ==
    LET requiredVram == calculateRequiredVram(params, modelQuant, contextLength,
                                              useKvCache, kvCacheQuant, inferenceMode)
        gpu          == gpuConfig(memoryMode, requiredVram, systemMemory, gpuVram)
    IN  [gpuType         |-> gpu.gpuType,
         vramNeeded      |-> toFixed2(requiredVram),
         fitsUnified     |-> fitsUnified(memoryMode, systemMemory, requiredVram),
         systemRamNeeded |-> systemRamNeeded(params, modelQuant, contextLength,
                                             inferenceMode),
         gpusRequired    |-> gpu.gpusRequired]

\* 1e9 as a power of ten: params * 1e9 * bitsPerParam is beyond TLC's 32-bit
\* integers, so the on-disk computation carries values as m * 10^e with m an
\* exact rational.
Sci(m, e) == [m |-> m, e |-> e]

SciMul(x, y) == Sci(RMul(x.m, y.m), x.e + y.e)

SciDiv(x, y) == Sci(RDiv(x.m, y.m), x.e - y.e)

\* The rational value of m * 10^e, for the exponents whose value fits.
SciValue(x) ==
    IF x.e >= 0 THEN RMul(x.m, R(10 ^ x.e)) ELSE RDiv(x.m, R(10 ^ (-x.e)))

calculateOnDiskSize(params, modelQuant) ==
    LET modelFactor  == getModelQuantFactor(modelQuant)
        bitsPerParam == RMul(modelFactor, R(8))
        totalBits    == SciMul(SciMul(Sci(params, 0), Sci(R(1), 9)),
                               Sci(bitsPerParam, 0))
    IN  SciValue(SciDiv(SciDiv(totalBits, Sci(R(8), 0)), Sci(R(1), 9)))

(***************************************************************************)
(* The same function in the arithmetic the program runs on.  A JavaScript  *)
(* number is an IEEE-754 binary64: every * and / returns the representable *)
(* value nearest to the exact result, ties to the even significand.  The   *)
(* operators below compute exactly that for positive operands and zero, on *)
(* naturals of any size kept as sequences of 15-bit limbs, least           *)
(* significant limb first and no zero limb at the top.  The exponents of   *)
(* this computation stay far from the overflow and subnormal ranges, which *)
(* are not modelled.                                                       *)
(***************************************************************************)
LimbBits == 15

LimbBase == 32768

SignificandBits == 53

RECURSIVE BigNorm(_)
BigNorm(a) ==
    IF a # <<>> /\ a[Len(a)] = 0 THEN BigNorm(SubSeq(a, 1, Len(a) - 1)) ELSE a

RECURSIVE BigFromNat(_)
BigFromNat(n) ==
    IF n = 0 THEN <<>> ELSE <<n % LimbBase>> \o BigFromNat(n \div LimbBase)

Limb(a, i) == IF i <= Len(a) THEN a[i] ELSE 0

\* Limbs i and up of a + b + carry.
RECURSIVE BigAddFrom(_, _, _, _)
BigAddFrom(a, b, i, carry) ==
    IF i > Len(a) /\ i > Len(b)
    THEN IF carry = 0 THEN <<>> ELSE <<carry>>
    ELSE LET sum == Limb(a, i) + Limb(b, i) + carry
         IN  <<sum % LimbBase>> \o BigAddFrom(a, b, i + 1, sum \div LimbBase)

BigAdd(a, b) == BigAddFrom(a, b, 1, 0)

\* Limbs i and up of a - b - borrow, for a >= b.
RECURSIVE BigSubFrom(_, _, _, _)
BigSubFrom(a, b, i, borrow) ==
    IF i > Len(a)
    THEN <<>>
    ELSE LET diff == LimbBase + a[i] - Limb(b, i) - borrow
         IN  <<diff % LimbBase>>
                 \o BigSubFrom(a, b, i + 1, IF diff < LimbBase THEN 1 ELSE 0)

BigSub(a, b) == BigNorm(BigSubFrom(a, b, 1, 0))

RECURSIVE BigGeqFrom(_, _, _)
BigGeqFrom(a, b, i) ==
    IF i = 0 THEN TRUE
    ELSE IF a[i] # b[i] THEN a[i] > b[i]
    ELSE BigGeqFrom(a, b, i - 1)

BigGeq(a, b) == IF Len(a) # Len(b) THEN Len(a) > Len(b) ELSE BigGeqFrom(a, b, Len(a))

\* Limbs i and up of a * k + carry, for one limb k.
RECURSIVE BigMulLimbFrom(_, _, _, _)
BigMulLimbFrom(a, k, i, carry) ==
    IF i > Len(a)
    THEN IF carry = 0 THEN <<>> ELSE <<carry>>
    ELSE LET prod == a[i] * k + carry
         IN  <<prod % LimbBase>> \o BigMulLimbFrom(a, k, i + 1, prod \div LimbBase)

RECURSIVE BigMulRaw(_, _)
BigMulRaw(a, b) ==
    IF b = <<>> THEN <<>>
    ELSE BigAdd(BigMulLimbFrom(a, b[1], 1, 0), <<0>> \o BigMulRaw(a, Tail(b)))

BigMul(a, b) == BigNorm(BigMulRaw(a, b))

RECURSIVE BitLen(_)
BitLen(n) == IF n = 0 THEN 0 ELSE 1 + BitLen(n \div 2)

BigBitLen(a) == IF a = <<>> THEN 0 ELSE LimbBits * (Len(a) - 1) + BitLen(a[Len(a)])

\* Bit i of a, bit 0 the least significant.
BigBit(a, i) == (Limb(a, i \div LimbBits + 1) \div (2 ^ (i % LimbBits))) % 2

\* a \div 2^s
BigShr(a, s) ==
    LET w == s \div LimbBits
        r == s % LimbBits
    IN  IF Len(a) <= w THEN <<>>
        ELSE BigNorm([j \in 1..(Len(a) - w) |->
                         (Limb(a, w + j) \div (2 ^ r))
                         + (Limb(a, w + j + 1) % (2 ^ r)) * (2 ^ (LimbBits - r))])

\* a * 2^s
BigShl(a, s) ==
    IF a = <<>> THEN <<>>
    ELSE [j \in 1..(s \div LimbBits) |-> 0]
             \o BigMulLimbFrom(a, 2 ^ (s % LimbBits), 1, 0)

\* a % 2^s = 0
BigLowZero(a, s) == \A i \in 0..(s - 1) : BigBit(a, i) = 0

\* The number of zero limbs at the low end of a # 0, counted from limb i.
RECURSIVE ZeroLimbs(_, _)
ZeroLimbs(a, i) == IF a[i] # 0 THEN 0 ELSE 1 + ZeroLimbs(a, i + 1)

\* The number of zero bits at the low end of n # 0.
RECURSIVE LowZeros(_)
LowZeros(n) == IF n % 2 = 1 THEN 0 ELSE 1 + LowZeros(n \div 2)

TrailingZeros(a) ==
    LET w == ZeroLimbs(a, 1) IN LimbBits * w + LowZeros(a[w + 1])

\* The binary64 of value m * 2^e, as the one pair with m odd; 0 has m empty.
Double(m, e) ==
    IF m = <<>> THEN [m |-> <<>>, e |-> 0]
    ELSE LET z == TrailingZeros(m) IN [m |-> BigShr(m, z), e |-> e + z]

\* The binary64 nearest to m * 2^e, or, when inexact, to a value above it
\* and below (m + 1) * 2^e.  A tie goes to the even significand.
roundToDouble(m, e, inexact) ==
    LET s == BigBitLen(m) - SignificandBits
    IN  IF s <= 0 THEN Double(m, e)
        ELSE LET q     == BigShr(m, s)
                 guard == BigBit(m, s - 1) = 1
                 rest  == inexact \/ ~BigLowZero(m, s - 1)
                 up    == guard /\ (rest \/ BigBit(q, 0) = 1)
             IN  Double(IF up THEN BigAdd(q, <<1>>) ELSE q, e + s)

\* An integer below 2^31 is a binary64.
fromNat(n) == Double(BigFromNat(n), 0)

\* x * y
fmul(x, y) == roundToDouble(BigMul(x.m, y.m), x.e + y.e, FALSE)

\* One step of the long division of n by d: bit i of n comes down.
DivStep(st, n, d, i) ==
    LET r2 == BigAddFrom(st.r, st.r, 1, BigBit(n, i))
        ge == BigGeq(r2, d)
    IN  [q |-> BigAddFrom(st.q, st.q, 1, IF ge THEN 1 ELSE 0),
         r |-> IF ge THEN BigSub(r2, d) ELSE r2]

\* The steps for bits hi down to lo of n, the upper half of them first; the
\* remainder never reaches d.
RECURSIVE DivRange(_, _, _, _, _)
DivRange(st, n, d, hi, lo) ==
    IF hi < lo THEN st
    ELSE IF hi = lo THEN DivStep(st, n, d, hi)
    ELSE LET mid   == (hi + lo + 1) \div 2
             upper == DivRange(st, n, d, hi, mid)
         IN  CASE ~BigGeq(upper.r, d) -> DivRange(upper, n, d, mid - 1, lo)

\* x / y for y # 0: the quotient of the significands to two bits more than
\* a binary64 keeps, and whether anything is left below them.
fdiv(x, y) ==
    IF x.m = <<>> THEN x
    ELSE LET k   == SignificandBits + 2 + BigBitLen(y.m) - BigBitLen(x.m)
             n   == BigShl(x.m, k)
             res == DivRange([q |-> <<>>, r |-> <<>>], n, y.m, BigBitLen(n) - 1, 0)
         IN  roundToDouble(res.q, x.e - y.e - k, res.r # <<>>)

\* The binary64 of a decimal literal or of a typed number: the nearest to
\* the exact value, which is what the division of two exact integers gives.
toDouble(x) == fdiv(fromNat(x[1]), fromNat(x[2]))

\* The binary64 just above x.
nextUp(x) ==
    LET s == SignificandBits - BigBitLen(x.m)
    IN  Double(BigAdd(BigShl(x.m, s), <<1>>), x.e - s)

\* calculateOnDiskSize with the 10% overhead of calculateRequiredVram.
calculateOnDiskSize64_Overhead(params, modelQuant) ==
    LET modelFactor  == toDouble(getModelQuantFactor(modelQuant))
        bitsPerParam == fmul(modelFactor, fromNat(8))
        totalBits    == fmul(fmul(toDouble(params), fromNat(1000000000)), bitsPerParam)
    IN  fmul(fdiv(fdiv(totalBits, fromNat(8)), fromNat(1000000000)),
             toDouble(overheadFactor))

\* Lines 183-192, every operation rounded as the program rounds it.
calculateOnDiskSize64(params, modelQuant) ==
    LET modelFactor  == toDouble(getModelQuantFactor(modelQuant))
        bitsPerParam == fmul(modelFactor, fromNat(8))
        totalBits    == fmul(fmul(toDouble(params), fromNat(1000000000)), bitsPerParam)
    IN  fdiv(fdiv(totalBits, fromNat(8)), fromNat(1000000000))

(***************************************************************************)
(* The calls.  A behaviour fixes one argument tuple (the CalculationInput  *)
(* of the caller) and then calls one of the exported functions on it.      *)
(***************************************************************************)
NumParams == 6

NumContexts == 3

\* params is a number of billions: the text field also yields 0 (an empty
\* field), fractions and negative numbers (App.tsx:55-63).
ParamsChoices == <<R(65), R(13), R(100), R(0), Rat(1, 2), R(150), R(-1), R(1000)>>

ContextChoices == <<4096, 2048, 128, 32768, 1024>>

ParamsInputs == {ParamsChoices[i] : i \in 1..NumParams}

ContextInputs == {ContextChoices[i] : i \in 1..NumContexts}

\* The tags of the type and one tag that is not of the type.
ModelQuantInputs == ModelQuantization \cup {"INT8"}

KvCacheQuantInputs == KvCacheQuantization \cup {"Q6"}

\* "undefined": the caller passed no inferenceMode argument (App.tsx:384-393).
InferenceModeInputs == InferenceMode \cup {"undefined"}

SystemMemoryInputs == {8, 128, 512}

\* Three of the options of the GPU VRAM select (App.tsx:249-257).
GpuVramInputs == {8, 24, 80}

CalculationInput ==
    [params        : ParamsInputs,
     modelQuant    : ModelQuantInputs,
     contextLength : ContextInputs,
     useKvCache    : BOOLEAN,
     kvCacheQuant  : KvCacheQuantInputs,
     memoryMode    : MemoryMode,
     systemMemory  : SystemMemoryInputs,
     gpuVram       : GpuVramInputs,
     inferenceMode : InferenceModeInputs]

NoRecommendation ==
    [gpuType |-> "", vramNeeded |-> "", fitsUnified |-> FALSE,
     systemRamNeeded |-> R(0), gpusRequired |-> 0]

VARIABLES
    input,           \* the arguments of the call (in SpecApp: the state of App)
    pc,              \* "start", or the function that has returned
    factor,          \* the value returned by get*QuantFactor
    vram,            \* the value returned by calculateRequiredVram
    recommendation,  \* the value returned by calculateHardwareRecommendation
    onDiskSize,      \* the value returned by calculateOnDiskSize
    darkMode,        \* DarkModeToggle: the darkMode state
    mounted,         \* DarkModeToggle: the mount effect has run
    bodyClassList,   \* document.body.classList
    localStorage,    \* localStorage.getItem('darkMode'), "null" when absent
    toggles          \* history: the number of times toggleDarkMode has run

theme == <<darkMode, mounted, bodyClassList, localStorage, toggles>>

vars == <<input, pc, factor, vram, recommendation, onDiskSize, theme>>

\* A document that was just loaded and a component that is not mounted yet.
ThemeAtLoad ==
    /\ darkMode = FALSE
    /\ mounted = FALSE
    /\ bodyClassList = {}
    /\ toggles = 0

Init ==
    /\ input \in CalculationInput
    /\ pc = "start"
    /\ factor = R(0)
    /\ vram = R(0)
    /\ recommendation = NoRecommendation
    /\ onDiskSize = R(0)
    /\ ThemeAtLoad
    /\ localStorage = "null"

CallGetModelQuantFactor ==
    /\ pc = "start"
    /\ factor' = getModelQuantFactor(input.modelQuant)
    /\ pc' = "getModelQuantFactor"
    /\ UNCHANGED <<input, vram, recommendation, onDiskSize, theme>>

CallGetKvCacheQuantFactor ==
    /\ pc = "start"
    /\ factor' = getKvCacheQuantFactor(input.kvCacheQuant)
    /\ pc' = "getKvCacheQuantFactor"
    /\ UNCHANGED <<input, vram, recommendation, onDiskSize, theme>>

CallCalculateRequiredVram ==
    /\ pc = "start"
    /\ vram' = calculateRequiredVram(input.params, input.modelQuant,
                                     input.contextLength, input.useKvCache,
                                     input.kvCacheQuant, input.inferenceMode)
    /\ pc' = "calculateRequiredVram"
    /\ UNCHANGED <<input, factor, recommendation, onDiskSize, theme>>

CallCalculateHardwareRecommendation ==
    /\ pc = "start"
    /\ recommendation' =
           calculateHardwareRecommendation(input.params, input.modelQuant,
                                           input.contextLength, input.useKvCache,
                                           input.kvCacheQuant, input.memoryMode,
                                           input.systemMemory, input.gpuVram,
                                           input.inferenceMode)
    /\ pc' = "calculateHardwareRecommendation"
    /\ UNCHANGED <<input, factor, vram, onDiskSize, theme>>

CallCalculateOnDiskSize ==
    /\ pc = "start"
    /\ onDiskSize' = calculateOnDiskSize(input.params, input.modelQuant)
    /\ pc' = "calculateOnDiskSize"
    /\ UNCHANGED <<input, factor, vram, recommendation, theme>>

Next ==
    \/ CallGetModelQuantFactor
    \/ CallGetKvCacheQuantFactor
    \/ CallCalculateRequiredVram
    \/ CallCalculateHardwareRecommendation
    \/ CallCalculateOnDiskSize

Spec == Init /\ [][Next]_vars

(***************************************************************************)
(* src/src/App.tsx: the App component (lines 27-336) and DarkModeToggle    *)
(* (lines 614-636).  `input` is App's state; every event handler sets one  *)
(* piece of it and React renders again, which calls                        *)
(* calculateHardwareRecommendation and calculateOnDiskSize on the state.   *)
(***************************************************************************)
DigitChars == <<"0", "1", "2", "3", "4", "5", "6", "7", "8", "9">>

IsDigit(c) == \E d \in 1..10 : DigitChars[d] = c

DigitValue(c) == (CHOOSE d \in 1..10 : DigitChars[d] = c) - 1

RECURSIVE DigitsValue(_, _)
DigitsValue(text, acc) ==
    IF text = <<>> THEN acc
    ELSE DigitsValue(Tail(text), 10 * acc + DigitValue(Head(text)))

AllDigits(text) == text # <<>> /\ \A k \in 1..Len(text) : IsDigit(text[k])

\* Number(event.target.value) for a text of sign and digits: the empty string
\* is 0, anything that is no number is NaN.
Number(text) ==
    IF text = <<>> THEN [nan |-> FALSE, value |-> 0]
    ELSE IF AllDigits(text) THEN [nan |-> FALSE, value |-> DigitsValue(text, 0)]
    ELSE IF Head(text) = "-" /\ AllDigits(Tail(text))
         THEN [nan |-> FALSE, value |-> -DigitsValue(Tail(text), 0)]
    ELSE [nan |-> TRUE, value |-> 0]

\* What a user can leave in a number field: nothing, 0, a negative number, a
\* number above every max, and a text that is no number.
TypedTexts ==
    {<<>>, <<"0">>, <<"-", "5">>, <<"4", "0", "0", "0", "0">>, <<"e">>}

\* A range input delivers values of its min..max only (lines 111-117, 158-165,
\* 275-282): the two ends of each slider.
ParamsRange == {1, 1000}

ContextLengthRange == {128, 32768}

SystemMemoryRange == {8, 512}

\* Options of the selects that the model exercises.
ModelQuantOptions == {"Q4", "F16"}

KvCacheQuantOptions == {"Q4", "F16"}

GpuVramOptions == {24, 80}

\* Lines 33-49: the useState initial values.
InitialState ==
    [params        |-> R(65),
     modelQuant    |-> "Q4",
     contextLength |-> 4096,
     useKvCache    |-> FALSE,
     kvCacheQuant  |-> "Q4",
     memoryMode    |-> "DISCRETE_GPU",
     systemMemory  |-> 128,
     gpuVram       |-> 24,
     inferenceMode |-> "incremental"]

\* Lines 68-80: a render with state i.
Render(i) ==
    /\ input' = i
    /\ recommendation' =
           calculateHardwareRecommendation(i.params, i.modelQuant, i.contextLength,
                                           i.useKvCache, i.kvCacheQuant, i.memoryMode,
                                           i.systemMemory, i.gpuVram, i.inferenceMode)
    /\ onDiskSize' = calculateOnDiskSize(i.params, i.modelQuant)
    /\ pc' = "rendered"
    /\ UNCHANGED <<factor, vram, theme>>

InitApp ==
    /\ input = InitialState
    /\ recommendation =
           calculateHardwareRecommendation(InitialState.params, InitialState.modelQuant,
                                           InitialState.contextLength,
                                           InitialState.useKvCache,
                                           InitialState.kvCacheQuant,
                                           InitialState.memoryMode,
                                           InitialState.systemMemory,
                                           InitialState.gpuVram,
                                           InitialState.inferenceMode)
    /\ onDiskSize = calculateOnDiskSize(InitialState.params, InitialState.modelQuant)
    /\ pc = "rendered"
    /\ factor = R(0)
    /\ vram = R(0)
    /\ ThemeAtLoad
    /\ localStorage = "null"

\* Lines 55-63, with the setter of the field; min and max are the attributes
\* of the input element, which the handler does not read.
handleInputChange(text, field, min, max) ==
    LET newValue == Number(text)
    IN  /\ ~newValue.nan
        /\ Render([input EXCEPT ![field] = IF field = "params" THEN R(newValue.value)
                                           ELSE newValue.value])

\* Lines 98-105.
ParamsTextChange == \E text \in TypedTexts : handleInputChange(text, "params", 1, 1000)

\* Lines 111-117.
ParamsRangeChange == \E v \in ParamsRange : Render([input EXCEPT !.params = R(v)])

\* Lines 125-128.
ModelQuantChange == \E q \in ModelQuantOptions : Render([input EXCEPT !.modelQuant = q])

\* Lines 144-152.
ContextLengthTextChange ==
    \E text \in TypedTexts : handleInputChange(text, "contextLength", 128, 32768)

\* Lines 158-165.
ContextLengthRangeChange ==
    \E v \in ContextLengthRange : Render([input EXCEPT !.contextLength = v])

\* Lines 175-180.
InferenceModeChange ==
    \E m \in InferenceMode : Render([input EXCEPT !.inferenceMode = m])

\* Lines 187-192.
UseKvCacheChange == Render([input EXCEPT !.useKvCache = ~input.useKvCache])

\* Lines 213-218.
KvCacheQuantChange ==
    \E k \in KvCacheQuantOptions : Render([input EXCEPT !.kvCacheQuant = k])

\* Lines 232-235.
MemoryModeChange == \E m \in MemoryMode : Render([input EXCEPT !.memoryMode = m])

\* Lines 242-260: the select is rendered in DISCRETE_GPU mode only.
GpuVramChange ==
    /\ input.memoryMode = "DISCRETE_GPU"
    /\ \E g \in GpuVramOptions : Render([input EXCEPT !.gpuVram = g])

\* Lines 264-272.
SystemMemoryTextChange ==
    \E text \in TypedTexts : handleInputChange(text, "systemMemory", 8, 512)

\* Lines 275-282.
SystemMemoryRangeChange ==
    \E v \in SystemMemoryRange : Render([input EXCEPT !.systemMemory = v])

\* The history counter of the toggles stops the model here.
MaxToggles == 48

\* What localStorage holds under 'darkMode' when the page loads: nothing, what
\* toggleDarkMode writes, or something another writer left there.
StoredAtLoad == {"null", "true", "false", "dark", "1", "TRUE"}

\* Lines 13-23 and 614-615: App renders DarkModeToggle, darkMode is false.
InitTheme ==
    /\ input = InitialState
    /\ pc = "start"
    /\ factor = R(0)
    /\ vram = R(0)
    /\ recommendation = NoRecommendation
    /\ onDiskSize = R(0)
    /\ ThemeAtLoad
    /\ localStorage \in StoredAtLoad

\* Lines 617-624: the mount effect.
MountDarkModeToggle ==
    /\ ~mounted
    /\ LET savedMode == localStorage = "true"
       IN  /\ darkMode' = savedMode
           /\ bodyClassList' = IF savedMode THEN bodyClassList \cup {"dark-mode"}
                               ELSE bodyClassList
    /\ mounted' = TRUE
    /\ UNCHANGED <<input, pc, factor, vram, recommendation, onDiskSize, localStorage,
                   toggles>>

\* Mutant: the light branch does not write localStorage.
toggleDarkMode_LightNotSaved ==
    /\ mounted
    /\ toggles < MaxToggles
    /\ LET newMode == ~darkMode
       IN  /\ darkMode' = newMode
           /\ IF newMode
              THEN /\ bodyClassList' = bodyClassList \cup {"dark-mode"}
                   /\ localStorage' = "true"
              ELSE /\ bodyClassList' = bodyClassList \ {"dark-mode"}
                   /\ UNCHANGED localStorage
    /\ toggles' = toggles + 1
    /\ UNCHANGED <<input, pc, factor, vram, recommendation, onDiskSize, mounted>>

\* Lines 626-636.  The button is clicked after the mount effect has run.
toggleDarkMode ==
    /\ mounted
    /\ toggles < MaxToggles
    /\ LET newMode == ~darkMode
       IN  /\ darkMode' = newMode
           /\ IF newMode
              THEN /\ bodyClassList' = bodyClassList \cup {"dark-mode"}
                   /\ localStorage' = "true"
              ELSE /\ bodyClassList' = bodyClassList \ {"dark-mode"}
                   /\ localStorage' = "false"
    /\ toggles' = toggles + 1
    /\ UNCHANGED <<input, pc, factor, vram, recommendation, onDiskSize, mounted>>

NextApp ==
    \/ ParamsTextChange
    \/ ParamsRangeChange
    \/ ModelQuantChange
    \/ ContextLengthTextChange
    \/ ContextLengthRangeChange
    \/ InferenceModeChange
    \/ UseKvCacheChange
    \/ KvCacheQuantChange
    \/ MemoryModeChange
    \/ GpuVramChange
    \/ SystemMemoryTextChange
    \/ SystemMemoryRangeChange

SpecApp == InitApp /\ [][NextApp]_vars

NextTheme ==
    \/ MountDarkModeToggle
    \/ toggleDarkMode

SpecTheme == InitTheme /\ [][NextTheme]_vars

(***************************************************************************)
(* The claims.                                                             *)
(***************************************************************************)
RequiredVramOf(i) ==
    calculateRequiredVram(i.params, i.modelQuant, i.contextLength, i.useKvCache,
                          i.kvCacheQuant, i.inferenceMode)

\* The formula of the specification, section 4.2, for the two inference modes.
SpecVram(i) ==
    LET baseModelMem == RMul(i.params, getModelQuantFactor(i.modelQuant))
        scale        == Rat(i.contextLength, 2048)
        kv           == getKvCacheQuantFactor(i.kvCacheQuant)
        contextPart  ==
            IF i.inferenceMode = "incremental"
            THEN IF ~i.useKvCache THEN R(0)
                 ELSE RMul(baseModelMem, RMul(Rat(2, 10), RMul(scale, kv)))
            ELSE RAdd(RMul(baseModelMem, RMul(Rat(5, 10), scale)),
                      IF i.useKvCache
                      THEN RMul(baseModelMem, RMul(Rat(1, 10), RMul(kv, scale)))
                      ELSE R(0))
    IN  RMul(RAdd(baseModelMem, contextPart), Rat(11, 10))

IsExample13(i) ==
    /\ i.params = R(13) /\ i.modelQuant = "F16" /\ i.contextLength = 2048
    /\ i.useKvCache /\ i.kvCacheQuant = "F16" /\ i.inferenceMode = "incremental"

IsExample65(i) ==
    /\ i.params = R(65) /\ i.modelQuant = "Q4" /\ i.contextLength = 4096
    /\ ~i.useKvCache /\ i.inferenceMode = "incremental"

\* C1: in incremental and in bulk mode calculateRequiredVram returns
\* (baseModelMem + contextMem) * 1.1 with the contextMem of section 4.2; the
\* 13B F16 example at 2048 tokens with an F16 KV cache gives 40.04.
C1_RequiredVramFormula ==
    (pc = "calculateRequiredVram" /\ input.inferenceMode \in InferenceMode)
        => /\ vram = SpecVram(input)
           /\ IsExample13(input) => vram = Rat(4004, 100)

C1_Witness ==
    /\ pc = "calculateRequiredVram"
    /\ IsExample13(input)
    /\ vram = Rat(4004, 100)

\* C2: in DISCRETE_GPU mode, with n = ceil(requiredVram * 1.2 / gpuVram), the
\* recommendation is 1 GPU labelled "Single" for n = 1, n GPUs labelled "nx" for
\* n in 2..8, and 0 GPUs labelled "Exceeds 8x" for n > 8; 35.75 GB on 24 GB
\* cards gives 2 GPUs, "2x 24GB GPUs".
C2_DiscreteGpuCount ==
    (pc = "calculateHardwareRecommendation" /\ input.memoryMode = "DISCRETE_GPU")
        => LET requiredVram == RequiredVramOf(input)
               g == ToString(input.gpuVram)
               n == RCeil(RDiv(RMul(requiredVram, Rat(12, 10)), R(input.gpuVram)))
           IN  /\ n = 1 => /\ recommendation.gpusRequired = 1
                           /\ recommendation.gpuType = "Single " \o g \o "GB GPU"
               /\ n \in 2..8 =>
                      /\ recommendation.gpusRequired = n
                      /\ recommendation.gpuType = ToString(n) \o "x " \o g \o "GB GPUs"
               /\ n > 8 => /\ recommendation.gpusRequired = 0
                           /\ recommendation.gpuType = "Exceeds 8x " \o g \o "GB GPUs"
               /\ (requiredVram = Rat(3575, 100) /\ input.gpuVram = 24)
                      => /\ recommendation.gpusRequired = 2
                         /\ recommendation.gpuType = "2x 24GB GPUs"

C2_Witness ==
    /\ pc = "calculateHardwareRecommendation"
    /\ input.memoryMode = "DISCRETE_GPU"
    /\ IsExample65(input)
    /\ input.gpuVram = 24
    /\ recommendation.vramNeeded = "35.75"
    /\ recommendation.gpusRequired = 2

PositiveInput(i) == i.params[1] > 0 /\ i.contextLength > 0 /\ i.gpuVram > 0

\* C3: for positive params, contextLength and gpuVram, gpusRequired is an
\* integer in 0..8; in DISCRETE_GPU mode it is 0 exactly when requiredVram * 1.2
\* does not fit in 8 GPUs of size gpuVram, and the label is then "Exceeds 8x".
C3_GpusRequiredRange ==
    (pc = "calculateHardwareRecommendation" /\ PositiveInput(input))
        => /\ recommendation.gpusRequired \in 0..8
           /\ input.memoryMode = "DISCRETE_GPU" =>
                  LET infeasible == RLt(R(8 * input.gpuVram),
                                        RMul(RequiredVramOf(input), Rat(12, 10)))
                  IN  /\ (recommendation.gpusRequired = 0) <=> infeasible
                      /\ infeasible =>
                             recommendation.gpuType =
                                 "Exceeds 8x " \o ToString(input.gpuVram) \o "GB GPUs"

C3_Witness ==
    /\ pc = "calculateHardwareRecommendation"
    /\ PositiveInput(input)
    /\ input.memoryMode = "DISCRETE_GPU"
    /\ recommendation.gpusRequired = 0
    /\ recommendation.gpuType = "Exceeds 8x 24GB GPUs"

C5_FitsWithin75Percent ==
    (pc = "calculateHardwareRecommendation" /\ recommendation.fitsUnified)
        => RLeq(RequiredVramOf(input), RMul(Rat(75, 100), R(input.systemMemory)))

\* C6: in UNIFIED_MEMORY mode gpusRequired is 0 and the label is
\* "Unified memory ({systemMemory}GB)", whatever the other inputs are.
C6_UnifiedNoGpus ==
    (pc = "calculateHardwareRecommendation" /\ input.memoryMode = "UNIFIED_MEMORY")
        => /\ recommendation.gpusRequired = 0
           /\ recommendation.gpuType =
                  "Unified memory (" \o ToString(input.systemMemory) \o "GB)"

C6_Witness ==
    /\ pc = "calculateHardwareRecommendation"
    /\ input.memoryMode = "UNIFIED_MEMORY"
    /\ ~recommendation.fitsUnified
    /\ recommendation.gpusRequired = 0
    /\ recommendation.gpuType = "Unified memory (8GB)"

\* C7: systemRamNeeded = max(8, params * factor * 0.5 + (contextLength / 1024
\* in bulk mode, else 0)), so it is at least 8 for every input.
C7_SystemRamFloor ==
    pc = "calculateHardwareRecommendation"
        => LET half == RMul(RMul(input.params, getModelQuantFactor(input.modelQuant)),
                            Rat(1, 2))
               bulk == IF input.inferenceMode = "bulk"
                       THEN Rat(input.contextLength, 1024) ELSE R(0)
               need == RAdd(half, bulk)
           IN  /\ recommendation.systemRamNeeded = (IF RLt(need, R(8)) THEN R(8) ELSE need)
               /\ RLeq(R(8), recommendation.systemRamNeeded)

C7_Witness ==
    /\ pc = "calculateHardwareRecommendation"
    /\ input.params = R(13) /\ input.modelQuant = "Q4"
    /\ input.inferenceMode = "incremental"
    /\ recommendation.systemRamNeeded = R(8)

\* C8: for positive params, in incremental and in bulk mode,
\* calculateRequiredVram does not decrease when contextLength grows.
C8_MonotoneInContext ==
    (pc = "calculateRequiredVram" /\ input.params[1] > 0
        /\ input.inferenceMode \in InferenceMode)
        => \A c2 \in ContextInputs :
               input.contextLength <= c2
                   => RLeq(vram, RequiredVramOf([input EXCEPT !.contextLength = c2]))

C8_Witness ==
    /\ pc = "calculateRequiredVram"
    /\ input.params[1] > 0
    /\ input.inferenceMode = "bulk"
    /\ \E c2 \in ContextInputs :
           /\ input.contextLength < c2
           /\ RLt(vram, RequiredVramOf([input EXCEPT !.contextLength = c2]))

\* C9: with the KV cache off in incremental mode calculateRequiredVram returns
\* params * factor * 1.1 for every contextLength and kvCacheQuant; 65B at Q4
\* gives 35.75.
C9_NoCacheIncremental ==
    (pc = "calculateRequiredVram" /\ ~input.useKvCache
        /\ input.inferenceMode = "incremental")
        => /\ vram = RMul(RMul(input.params, getModelQuantFactor(input.modelQuant)),
                          Rat(11, 10))
           /\ \A c \in ContextInputs, k \in KvCacheQuantInputs :
                  RequiredVramOf([input EXCEPT !.contextLength = c,
                                               !.kvCacheQuant = k]) = vram
           /\ IsExample65(input) => vram = Rat(3575, 100)

C9_Witness ==
    /\ pc = "calculateRequiredVram"
    /\ IsExample65(input)
    /\ vram = Rat(3575, 100)

\* The tables of the specification, section 4.1, in thousandths.
ModelQuantTable ==
    [F32 |-> 4000, F16 |-> 2000, Q8 |-> 1000, Q6 |-> 750, Q5 |-> 625, Q4 |-> 500,
     Q3 |-> 375, Q2 |-> 250, GPTQ |-> 400, AWQ |-> 350]

KvCacheQuantTable ==
    [F32 |-> 4000, F16 |-> 2000, Q8 |-> 1000, Q5 |-> 625, Q4 |-> 500]

\* C10: getModelQuantFactor and getKvCacheQuantFactor return the tabulated
\* constant for each tag of their type and 1.0 for any other tag (Q6 is no
\* KV-cache tag), without an error.
C10_QuantFactorTables ==
    /\ pc = "getModelQuantFactor" =>
           factor = (IF input.modelQuant \in DOMAIN ModelQuantTable
                     THEN Rat(ModelQuantTable[input.modelQuant], 1000) ELSE R(1))
    /\ pc = "getKvCacheQuantFactor" =>
           factor = (IF input.kvCacheQuant \in DOMAIN KvCacheQuantTable
                     THEN Rat(KvCacheQuantTable[input.kvCacheQuant], 1000) ELSE R(1))
    /\ DOMAIN ModelQuantTable = ModelQuantization
    /\ DOMAIN KvCacheQuantTable = KvCacheQuantization

C10_Witness ==
    /\ pc = "getKvCacheQuantFactor"
    /\ input.kvCacheQuant = "Q6"
    /\ factor = R(1)

\* C14 (purity of the Estimator) has no formula: the exported functions are
\* operators of their arguments here, as they are expressions of their
\* parameters and of constants in calculations.ts, so two calls with equal
\* arguments agree whatever the module says.

\* C15: for positive params and contextLength, every KV-cache tag and either
\* value of useKvCache, calculateRequiredVram in bulk mode is at least
\* calculateRequiredVram in incremental mode with the other inputs equal.
C15_BulkAtLeastIncremental ==
    (pc = "calculateRequiredVram" /\ input.inferenceMode = "incremental"
        /\ input.params[1] > 0 /\ input.contextLength > 0
        /\ input.kvCacheQuant \in KvCacheQuantization)
        => RLeq(vram, RequiredVramOf([input EXCEPT !.inferenceMode = "bulk"]))

C15_Witness ==
    /\ pc = "calculateRequiredVram"
    /\ input.inferenceMode = "incremental"
    /\ input.params[1] > 0
    /\ input.useKvCache /\ input.kvCacheQuant = "F32"
    /\ RLt(R(0), vram)
    /\ RLt(vram, RequiredVramOf([input EXCEPT !.inferenceMode = "bulk"]))

\* The number shown as vramNeeded, in hundredths (signed).
ShownHundredths(i) ==
    LET x == RequiredVramOf(i)
        n == roundHundredths(x)
    IN  IF x[1] < 0 THEN -n ELSE n

\* C16 as stated: in UNIFIED_MEMORY mode fitsUnified is true exactly when the
\* vramNeeded that is displayed (two decimals) is at most systemMemory.
C16_ShownAgreesWithVerdict ==
    (pc = "calculateHardwareRecommendation" /\ input.memoryMode = "UNIFIED_MEMORY")
        => LET n == ShownHundredths(input)
           IN  /\ recommendation.vramNeeded = formatHundredths(Abs(n), n < 0)
               /\ recommendation.fitsUnified <=> n <= 100 * input.systemMemory

\* C16 as amended: the verdict is decided on the unrounded requiredVram, and the
\* displayed vramNeeded is within 0.005 of it: when fitsUnified is true the
\* displayed value is at most systemMemory + 0.005, when it is false the
\* displayed value is more than systemMemory - 0.005.
C16_ShownWithinHalfCent ==
    (pc = "calculateHardwareRecommendation" /\ input.memoryMode = "UNIFIED_MEMORY")
        => LET n     == ShownHundredths(input)
               shown == Rat(n, 100)
               mem   == R(input.systemMemory)
           IN  /\ recommendation.vramNeeded = formatHundredths(Abs(n), n < 0)
               /\ recommendation.fitsUnified <=> RLeq(RequiredVramOf(input), mem)
               /\ recommendation.fitsUnified => RLeq(shown, RAdd(mem, Rat(1, 200)))
               /\ ~recommendation.fitsUnified => RLt(RAdd(mem, Rat(-1, 200)), shown)

\* The displayed value equals systemMemory and the verdict is "exceeds".
C16_Witness ==
    /\ pc = "calculateHardwareRecommendation"
    /\ input.memoryMode = "UNIFIED_MEMORY"
    /\ input.systemMemory = 128
    /\ recommendation.vramNeeded = "128.00"
    /\ ~recommendation.fitsUnified

\* C17 as stated: the bulk context formula is applied to requiredVram exactly
\* when the bulk term contextLength / 1024 is added to the system-RAM need.
\* (Stated where the two are visible: positive inputs, and a system-RAM need
\* with the bulk term above the 8 GB floor.)
C17_ModesAgree ==
    LET half     == RMul(RMul(input.params, getModelQuantFactor(input.modelQuant)),
                         Rat(1, 2))
        withBulk == RAdd(half, Rat(input.contextLength, 1024))
        vramBulk == SpecVram([input EXCEPT !.inferenceMode = "bulk"])
    IN  (pc = "calculateHardwareRecommendation" /\ PositiveInput(input)
            /\ RLt(R(8), withBulk))
            => ((recommendation.vramNeeded = toFixed2(vramBulk)
                    /\ RequiredVramOf(input) = vramBulk)
                <=> recommendation.systemRamNeeded = withBulk)

\* C12 as stated: whatever the user types or slides, the values passed to
\* calculateHardwareRecommendation and calculateOnDiskSize satisfy
\* 1 <= params <= 1000, 128 <= contextLength <= 32768, 8 <= systemMemory <= 512.
C12_InputsInRange ==
    pc = "rendered"
        => /\ RLeq(R(1), input.params) /\ RLeq(input.params, R(1000))
           /\ 128 <= input.contextLength /\ input.contextLength <= 32768
           /\ 8 <= input.systemMemory /\ input.systemMemory <= 512

BoolString(b) == IF b THEN "true" ELSE "false"

\* C13: the mount sets darkMode from the persisted value (absent counts as
\* false); each toggle flips darkMode and persists it; and after the mount
\* darkMode, the 'dark-mode' class of the body and the persisted value (which
\* is "true" or "false" once a toggle has happened) agree.
C13_ThemeLoadAndSave ==
    [][/\ (~mounted /\ mounted') => (darkMode' <=> localStorage = "true")
       /\ toggles' # toggles => /\ darkMode' = ~darkMode
                                /\ localStorage' = BoolString(darkMode')
       /\ mounted' => /\ darkMode' <=> "dark-mode" \in bodyClassList'
                      /\ darkMode' <=> localStorage' = "true"
       /\ toggles' > 0 => localStorage' = BoolString(darkMode')]_vars

\* Two toggles after a load with nothing stored: light again, and saved.
C13_Witness ==
    /\ mounted
    /\ toggles = 2
    /\ ~darkMode
    /\ localStorage = "false"
    /\ "dark-mode" \notin bodyClassList

(***************************************************************************)
(* calculateOnDiskSize in binary64, on whole parameter counts.             *)
(***************************************************************************)
MaxDiskParams == 24

InitDisk ==
    /\ \E p \in 1..MaxDiskParams, q \in ModelQuantization :
           input = [InitialState EXCEPT !.params = R(p), !.modelQuant = q]
    /\ pc = "start"
    /\ factor = R(0)
    /\ vram = R(0)
    /\ recommendation = NoRecommendation
    /\ onDiskSize = fromNat(0)
    /\ ThemeAtLoad
    /\ localStorage = "null"

\* Lines 183-192.
CallCalculateOnDiskSize64 ==
    /\ pc = "start"
    /\ onDiskSize' = calculateOnDiskSize64(input.params, input.modelQuant)
    /\ pc' = "calculateOnDiskSize"
    /\ UNCHANGED <<input, factor, vram, recommendation, theme>>

NextDisk == CallCalculateOnDiskSize64

SpecDisk == InitDisk /\ [][NextDisk]_vars

\* params * getModelQuantFactor(modelQuant), one multiplication.
ProductOf(i) == fmul(toDouble(i.params), toDouble(getModelQuantFactor(i.modelQuant)))

\* calculateOnDiskSize(2p, q) = 2 * calculateOnDiskSize(p, q)
LinearAt(i, size) ==
    calculateOnDiskSize64(RMul(R(2), i.params), i.modelQuant) = fmul(fromNat(2), size)

WithinOneUlp(x, y) == x = y \/ nextUp(x) = y \/ nextUp(y) = x

\* The factors that are a whole number of eighths.
DyadicQuant == ModelQuantization \ {"GPTQ", "AWQ"}

\* C11 as stated: calculateOnDiskSize(params, modelQuant) is the number
\* params * getModelQuantFactor(modelQuant), and doubling params doubles it.
C11_DiskSizeIsProduct ==
    pc = "calculateOnDiskSize"
        => /\ onDiskSize = ProductOf(input)
           /\ LinearAt(input, onDiskSize)

\* C11, amended: calculateOnDiskSize(params, modelQuant) is
\* params * getModelQuantFactor(modelQuant) or a binary64 next to it, is
\* that product itself for the factors that are binary fractions (all but
\* GPTQ and AWQ), carries no overhead, and doubling params doubles it.
C11_DiskSizeNearProduct ==
    pc = "calculateOnDiskSize"
        => /\ WithinOneUlp(onDiskSize, ProductOf(input))
           /\ input.modelQuant \in DyadicQuant => onDiskSize = ProductOf(input)
           /\ LinearAt(input, onDiskSize)

\* 3 billion parameters in GPTQ: 1.2 from the function, the product is
\* 1.2000000000000002.
C11_Witness ==
    /\ pc = "calculateOnDiskSize"
    /\ input.params = R(3)
    /\ input.modelQuant = "GPTQ"
    /\ nextUp(onDiskSize) = ProductOf(input)

====
